---- MODULE Spec2Model ----
(***************************************************************************)
(* ESS chatbot: the admin e-mail conversation flow                         *)
(* (src/src/admin_email_feature.py), the orchestrator that routes a user   *)
(* message to it (src/src/chatbot.py) and the intent detector              *)
(* (src/src/intent_detector.py).                                           *)
(*                                                                         *)
(* A Python string is a finite sequence of symbols.  A symbol is a word, a *)
(* run of blanks or a punctuation mark; lower(), strip(), split(),         *)
(* startswith() and the `in` substring test act on these sequences.        *)
(* An optional value (None, a missing dict key) is the empty tuple, a      *)
(* present value v is <<v>>.                                               *)
(***************************************************************************)
EXTENDS Integers, Sequences, FiniteSets, TLC

\* Longest free text drawn as an input.
MaxTextLen == 1

None == <<>>
Some(v) == <<v>>

\* Python truthiness of an optional string: None and "" are falsy.
Truthy(opt) == opt # None /\ opt[1] # <<>>

(***************************************************************************)
(* Strings                                                                 *)
(***************************************************************************)
Blank == " "

\* str.lower() on one symbol.
LowerSym(s) ==
    CASE s = "BO" -> "bo"
      [] s = "Bo" -> "bo"
      [] s = "Al" -> "al"
      [] s = "Cy" -> "cy"
      [] s = "CY" -> "cy"
      [] s = "Di" -> "di"
      [] s = "DI" -> "di"
      [] s = "Hi" -> "hi"
      [] s = "A" -> "a"
      [] s = "B" -> "b"
      [] s = "O" -> "o"
      [] s = "/LOGOUT" -> "/logout"
      [] s = "/Help" -> "/help"
      [] OTHER -> s

\* str.lower()
Lower(t) == [i \in 1..Len(t) |-> LowerSym(t[i])]

\* `sub in text` for strings: sub occurs as a contiguous run of text.
Contains(text, sub) ==
    \E i \in 0..(Len(text) - Len(sub)) :
        \A j \in 1..Len(sub) : text[i + j] = sub[j]

\* str.startswith(prefix)
StartsWith(text, prefix) ==
    /\ Len(prefix) <= Len(text)
    /\ \A j \in 1..Len(prefix) : text[j] = prefix[j]

\* str.strip(): leading and trailing blanks removed.
RECURSIVE LStrip(_)
LStrip(t) == IF t # <<>> /\ Head(t) = Blank THEN LStrip(Tail(t)) ELSE t

RECURSIVE RStrip(_)
RStrip(t) ==
    IF t # <<>> /\ t[Len(t)] = Blank THEN RStrip(SubSeq(t, 1, Len(t) - 1))
    ELSE t

Strip(t) == RStrip(LStrip(t))

\* str.split(): the words of t, blanks dropped.
Split(t) == SelectSeq(t, LAMBDA s : s # Blank)

(***************************************************************************)
(* Employee directory (data/employees.json, read by _load_employees on     *)
(* every call and never written): two admins with an address, one admin    *)
(* without, one plain employee.                                            *)
(***************************************************************************)
Employees ==
    << [employee_id |-> "E1", name |-> <<"Al">>, email |-> Some("al@"),
        role |-> "ADMIN", password |-> "pw1"],
       [employee_id |-> "E2", name |-> <<"Bo">>, email |-> Some("bo@"),
        role |-> "EMPLOYEE", password |-> "pw2"],
       [employee_id |-> "E3", name |-> <<"Cy">>, email |-> None,
        role |-> "ADMIN", password |-> "pw3"],
       [employee_id |-> "E4", name |-> <<"Di">>, email |-> Some("di@"),
        role |-> "ADMIN", password |-> "pw4"] >>

EmployeeSet == {Employees[i] : i \in 1..Len(Employees)}
EmployeeIds == {e.employee_id : e \in EmployeeSet}

\* dict.get("email") truthiness: a missing or empty address is falsy.
HasEmail(e) == e.email # None /\ e.email[1] # ""

\* next((e for e in employees if ...), None): the first match in list order.
\* hits are the places of the matching items.
FirstAt(items, hits) ==
    IF hits = {} THEN None
    ELSE Some(items[CHOOSE i \in hits : \A j \in hits : i <= j])

find_employee_by_name(name, employees) ==
    LET lowered == Lower(name)
    IN  FirstAt(employees, {i \in 1..Len(employees) :
                               Lower(employees[i].name) = lowered})

find_employee_by_id(emp_id, employees) ==
    FirstAt(employees, {i \in 1..Len(employees) :
                           employees[i].employee_id = emp_id})

\* The raw-text match taking the last matching employee of the directory.
match_employee_name_LastInDirectory(text, employees) ==
    LET lowered == Lower(text)
        hits == {i \in 1..Len(employees) :
                    Contains(lowered, Lower(employees[i].name))}
    IN  IF hits = {} THEN None
        ELSE Some(employees[CHOOSE i \in hits : \A j \in hits : j <= i].name)

\* The name of the first employee (directory order) whose lowered name
\* occurs in the lowered text, or None.
match_employee_name(text, employees) ==
    LET lowered == Lower(text)
        hit == FirstAt(employees, {i \in 1..Len(employees) :
                                      Contains(lowered, Lower(employees[i].name))})
    IN  IF hit = None THEN None ELSE Some(hit[1].name)

(***************************************************************************)
(* Replies of handle_admin_email_feature                                   *)
(***************************************************************************)
MsgNotAuthorized == <<"(x)", "You are not authorized to send emails.">>
MsgConfigMissing == <<"(x)", "Admin email configuration missing.">>
MsgProvideMessage == <<"(?)", "Please provide the message to send.">>
MsgSpecifyName == <<"(?)", "Please specify the employee name", ".">>
MsgSent(name) == <<"(ok)", "Email sent successfully to">> \o name \o <<".">>
MsgNotFound(name) == <<"(x)", "Employee '">> \o name \o <<"' not found.">>
MsgNoEmail(name) == <<"(x)", "Email not available for">> \o name \o <<".">>
MsgPrompt(name) ==
    <<"(mail)", "What message would you like to send to">> \o name \o <<"?">>

(***************************************************************************)
(* _send_email: builds the mail and hands it to the SMTP server.  The      *)
(* server's answer is an input: smtp_ok = FALSE is connect/login/sendmail  *)
(* raising.  The result is the attempt as the server saw it.               *)
(***************************************************************************)
send_email(from_email, to_email, to_name, admin_name, message, smtp_ok) ==
    [From |-> from_email, To |-> to_email, to_name |-> to_name,
     admin_name |-> admin_name, message |-> message, delivered |-> smtp_ok]

(***************************************************************************)
(* handle_admin_email_feature(user, entities) on the module-level dict     *)
(* _ADMIN_EMAIL_CONTEXT (context: employee id -> None or Some of           *)
(* [to_employee |-> employee]).  The result carries the returned reply or  *)
(* the exception raised, the dict afterwards and the send attempts made.   *)
(***************************************************************************)
Returned(reply, context, sends) ==
    [reply |-> Some(reply), raised |-> "", context |-> context, sends |-> sends]

Raised(exc, context, sends) ==
    [reply |-> None, raised |-> exc, context |-> context, sends |-> sends]

\* STEP 2 with the context popped before the message is looked at.
continue_flow_PopFirst(admin, admin_id, entities, context, smtp_ok) ==
    LET message == IF Truthy(entities.message) THEN entities.message
                   ELSE entities.raw_text
        ctx == context[admin_id][1]
        popped == [context EXCEPT ![admin_id] = None]
    IN  IF ~Truthy(message) THEN Returned(MsgProvideMessage, popped, <<>>)
        ELSE LET mail == send_email(admin.email[1], ctx.to_employee.email[1],
                                    ctx.to_employee.name, admin.name,
                                    message[1], smtp_ok)
             IN  IF smtp_ok
                 THEN Returned(MsgSent(ctx.to_employee.name), popped, <<mail>>)
                 ELSE Raised("SMTPException", popped, <<mail>>)

\* STEP 2 with the context read but not popped.
continue_flow_KeepContext(admin, admin_id, entities, context, smtp_ok) ==
    LET message == IF Truthy(entities.message) THEN entities.message
                   ELSE entities.raw_text
    IN  IF ~Truthy(message) THEN Returned(MsgProvideMessage, context, <<>>)
        ELSE LET ctx == context[admin_id][1]
                 mail == send_email(admin.email[1], ctx.to_employee.email[1],
                                    ctx.to_employee.name, admin.name,
                                    message[1], smtp_ok)
             IN  IF smtp_ok
                 THEN Returned(MsgSent(ctx.to_employee.name), context, <<mail>>)
                 ELSE Raised("SMTPException", context, <<mail>>)

\* STEP 2 with the send first and the context popped once it succeeded.
continue_flow_SendThenPop(admin, admin_id, entities, context, smtp_ok) ==
    LET message == IF Truthy(entities.message) THEN entities.message
                   ELSE entities.raw_text
    IN  IF ~Truthy(message) THEN Returned(MsgProvideMessage, context, <<>>)
        ELSE LET ctx == context[admin_id][1]
                 popped == [context EXCEPT ![admin_id] = None]
                 mail == send_email(admin.email[1], ctx.to_employee.email[1],
                                    ctx.to_employee.name, admin.name,
                                    message[1], smtp_ok)
             IN  IF smtp_ok
                 THEN Returned(MsgSent(ctx.to_employee.name), popped, <<mail>>)
                 ELSE Raised("SMTPException", context, <<mail>>)

\* STEP 2 of the handler: a context exists for admin_id.
continue_flow(admin, admin_id, entities, context, smtp_ok) ==
    LET message == IF Truthy(entities.message) THEN entities.message
                   ELSE entities.raw_text
    IN  IF ~Truthy(message) THEN Returned(MsgProvideMessage, context, <<>>)
        ELSE LET ctx == context[admin_id][1]
                 popped == [context EXCEPT ![admin_id] = None]
                 mail == send_email(admin.email[1], ctx.to_employee.email[1],
                                    ctx.to_employee.name, admin.name,
                                    message[1], smtp_ok)
             IN  IF smtp_ok
                 THEN Returned(MsgSent(ctx.to_employee.name), popped, <<mail>>)
                 ELSE Raised("SMTPException", popped, <<mail>>)

\* STEP 1 with the target recorded before its address is checked.
start_flow_RecordFirst(admin_id, entities, context, employees) ==
    LET raw == IF entities.raw_text = None THEN <<>> ELSE entities.raw_text[1]
        employee_name == IF Truthy(entities.employee_name)
                         THEN entities.employee_name
                         ELSE match_employee_name(raw, employees)
    IN  IF ~Truthy(employee_name) THEN Returned(MsgSpecifyName, context, <<>>)
        ELSE LET employee == find_employee_by_name(employee_name[1], employees)
             IN  IF employee = None
                 THEN Returned(MsgNotFound(employee_name[1]), context, <<>>)
                 ELSE LET recorded == [context EXCEPT ![admin_id] =
                                          Some([to_employee |-> employee[1]])]
                      IN  IF ~HasEmail(employee[1])
                          THEN Returned(MsgNoEmail(employee[1].name), recorded,
                                        <<>>)
                          ELSE Returned(MsgPrompt(employee[1].name), recorded,
                                        <<>>)

\* STEP 1 with the prompt returned but the target not recorded.
start_flow_PromptOnly(admin_id, entities, context, employees) ==
    LET raw == IF entities.raw_text = None THEN <<>> ELSE entities.raw_text[1]
        employee_name == IF Truthy(entities.employee_name)
                         THEN entities.employee_name
                         ELSE match_employee_name(raw, employees)
    IN  IF ~Truthy(employee_name) THEN Returned(MsgSpecifyName, context, <<>>)
        ELSE LET employee == find_employee_by_name(employee_name[1], employees)
             IN  IF employee = None
                 THEN Returned(MsgNotFound(employee_name[1]), context, <<>>)
                 ELSE IF ~HasEmail(employee[1])
                 THEN Returned(MsgNoEmail(employee[1].name), context, <<>>)
                 ELSE Returned(MsgPrompt(employee[1].name), context, <<>>)

\* STEP 1 of the handler: no context for admin_id.
start_flow(admin_id, entities, context, employees) ==
    LET raw == IF entities.raw_text = None THEN <<>> ELSE entities.raw_text[1]
        employee_name == IF Truthy(entities.employee_name)
                         THEN entities.employee_name
                         ELSE match_employee_name(raw, employees)
    IN  IF ~Truthy(employee_name) THEN Returned(MsgSpecifyName, context, <<>>)
        ELSE LET employee == find_employee_by_name(employee_name[1], employees)
             IN  IF employee = None
                 THEN Returned(MsgNotFound(employee_name[1]), context, <<>>)
                 ELSE IF ~HasEmail(employee[1])
                 THEN Returned(MsgNoEmail(employee[1].name), context, <<>>)
                 ELSE Returned(MsgPrompt(employee[1].name),
                               [context EXCEPT ![admin_id] =
                                    Some([to_employee |-> employee[1]])],
                               <<>>)

\* The handler without the role check.
handle_admin_email_feature_NoRoleCheck(user, entities, context, smtp_ok) ==
    IF user = None THEN Raised("AttributeError", context, <<>>)
    ELSE LET admin_id == user[1].employee_id
             employees == Employees
             admin == find_employee_by_id(admin_id, employees)
         IN  IF admin = None \/ ~HasEmail(admin[1])
             THEN Returned(MsgConfigMissing, context, <<>>)
             ELSE IF context[admin_id] # None
             THEN continue_flow(admin[1], admin_id, entities, context, smtp_ok)
             ELSE start_flow(admin_id, entities, context, employees)

handle_admin_email_feature(user, entities, context, smtp_ok) ==
    IF user = None THEN Raised("AttributeError", context, <<>>)
    ELSE IF user[1].role # "ADMIN"
    THEN Returned(MsgNotAuthorized, context, <<>>)
    ELSE LET admin_id == user[1].employee_id
             employees == Employees
             admin == find_employee_by_id(admin_id, employees)
         IN  IF admin = None \/ ~HasEmail(admin[1])
             THEN Returned(MsgConfigMissing, context, <<>>)
             ELSE IF context[admin_id] # None
             THEN continue_flow(admin[1], admin_id, entities, context, smtp_ok)
             ELSE start_flow(admin_id, entities, context, employees)

(***************************************************************************)
(* IntentDetector                                                          *)
(***************************************************************************)
\* config/intents.json: a public intent, a private one and the flow-starting
\* intent, whose privacy flag is the catalog's choice.
Catalog(admin_private) ==
    << [intent_id |-> "GREETING", name |-> "Greeting",
        examples |-> <<"ex1">>, is_private |-> FALSE],
       [intent_id |-> "LEAVE_BALANCE", name |-> "Leave Balance",
        examples |-> <<"ex2">>, is_private |-> TRUE],
       [intent_id |-> "ADMIN_SEND_EMAIL", name |-> "Admin Send Email",
        examples |-> <<"ex3">>, is_private |-> admin_private] >>

Catalogs == {Catalog(p) : p \in BOOLEAN}

\* __init__: one record per (intent, example), intents in catalog order and
\* examples in order within each intent.
RECURSIVE intent_embeddings(_)
intent_embeddings(catalog) ==
    IF catalog = <<>> THEN <<>>
    ELSE LET intent == Head(catalog)
         IN  [k \in 1..Len(intent.examples) |->
                 [intent |-> intent, embedding |-> intent.examples[k]]]
             \o intent_embeddings(Tail(catalog))

\* The scan of get_intent from record i on.  scores[i] is
\* cosine_similarity(query_embedding, item["embedding"]) of record i, in
\* tenths.
RECURSIVE ScanFrom(_, _, _, _, _)
ScanFrom(embeddings, scores, i, best_score, best_intent) ==
    IF i > Len(embeddings) THEN [intent |-> best_intent, score |-> best_score]
    ELSE IF scores[i] > best_score
    THEN ScanFrom(embeddings, scores, i + 1, scores[i],
                  Some(embeddings[i].intent))
    ELSE ScanFrom(embeddings, scores, i + 1, best_score, best_intent)

\* get_intent returning the best match whatever the threshold.
get_intent_NoThreshold(embeddings, scores, threshold) ==
    ScanFrom(embeddings, scores, 1, 0, None)

get_intent(embeddings, scores, threshold) ==
    LET best == ScanFrom(embeddings, scores, 1, 0, None)
    IN  IF best.score >= threshold THEN best
        ELSE [intent |-> None, score |-> best.score]

\* is_private_intent answering that no intent is private.
is_private_intent_AllPublic(catalog, intent_id) == FALSE

is_private_intent(catalog, intent_id) ==
    LET hit == FirstAt(catalog, {i \in 1..Len(catalog) :
                                    catalog[i].intent_id = intent_id})
    IN  IF hit = None THEN FALSE ELSE hit[1].is_private

(***************************************************************************)
(* State                                                                   *)
(***************************************************************************)
VARIABLES
    ADMIN_EMAIL_CONTEXT,  \* _ADMIN_EMAIL_CONTEXT: employee id -> pending flow
    current_user,         \* auth_manager: the logged-in employee, or None
    conversation_state,   \* ESSChatbot.conversation_state
    intents,              \* IntentDetector.intents, loaded at construction
    last,                 \* the last call: its arguments and what it did
    detection,            \* one get_intent call: its inputs and its result
    resolution,           \* one target resolution: its inputs and its result
    requests              \* concurrent handler calls: position and locals

\* The variables only the function-level and concurrent specifications use.
unit_vars == <<detection, resolution, requests>>

vars == <<ADMIN_EMAIL_CONTEXT, current_user, conversation_state, intents, last,
          detection, resolution, requests>>

(***************************************************************************)
(* Inputs                                                                  *)
(***************************************************************************)
TextSyms == {Blank, "BO"}
Texts == UNION {[1..n -> TextSyms] : n \in 0..MaxTextLen}

\* Values of the 'employee_name' entity: absent, Bo and Di in another case,
\* Cy (no address), a name nobody has.
NameEntities ==
    {None, Some(<<"BO">>), Some(<<"DI">>), Some(<<"CY">>), Some(<<"zed">>)}
MessageEntities == {None, Some(<<>>), Some(<<"Hi">>)}
RawTextEntities == {None} \cup {Some(t) : t \in Texts}

\* The entity dicts a caller passes: a name, a message or neither, with or
\* without the raw text.
EntityDicts ==
    {e \in [employee_name : NameEntities, message : MessageEntities,
            raw_text : RawTextEntities] :
        e.employee_name = None \/ e.message = None}

NoEntities == [employee_name |-> None, message |-> None, raw_text |-> None]

\* A call that has not happened: the shape of `last`.
NoCall ==
    [op |-> "none", user |-> None, user_input |-> <<>>,
     entities |-> NoEntities, context_before |-> [i \in EmployeeIds |-> None],
     reply |-> None, raised |-> "", sends |-> <<>>,
     success |-> None, intent |-> None, detected |-> None,
     handler_calls |-> 0, dispatched |-> FALSE]

Init ==
    /\ ADMIN_EMAIL_CONTEXT = [i \in EmployeeIds |-> None]
    /\ current_user = None
    /\ conversation_state = None
    /\ intents \in Catalogs
    /\ last = NoCall
    /\ detection = None
    /\ resolution = None
    /\ requests = None

(***************************************************************************)
(* A caller invokes handle_admin_email_feature(user, entities) directly.   *)
(* The SMTP server's answer is drawn only when the call reaches the send.  *)
(***************************************************************************)
HandleAdminEmail ==
    \E user \in EmployeeSet, entities \in EntityDicts, smtp_ok \in BOOLEAN :
        LET r == handle_admin_email_feature(Some(user), entities,
                                            ADMIN_EMAIL_CONTEXT, smtp_ok)
        IN  /\ smtp_ok \/ r.sends # <<>>
            /\ ADMIN_EMAIL_CONTEXT' = r.context
            /\ last' = [NoCall EXCEPT
                           !.op = "handle_admin_email_feature",
                           !.user = Some(user),
                           !.entities = entities,
                           !.context_before = ADMIN_EMAIL_CONTEXT,
                           !.reply = r.reply,
                           !.raised = r.raised,
                           !.sends = r.sends,
                           !.handler_calls = 1]
            /\ UNCHANGED <<current_user, conversation_state, intents, unit_vars>>

NextHandler == HandleAdminEmail

SpecHandler == Init /\ [][NextHandler]_vars

(***************************************************************************)
(* ESSChatbot.process_message                                              *)
(***************************************************************************)
\* threshold=0.5 of the orchestrator's get_intent call, in tenths.
QueryThreshold == 5

\* Similarities the embedder can give a query against one record, in tenths:
\* below the threshold and on it.
QueryScores == {4, 5}

\* What EntityExtractor.extract_entities finds in a query: no name, Di in
\* another case, a name nobody has.
ExtractedNames == {None, Some(<<"DI">>), Some(<<"zed">>)}

\* BusinessLogicHandler.handle_intent answers.
BusinessResponses ==
    {[success |-> TRUE, next_action |-> FALSE],
     [success |-> TRUE, next_action |-> TRUE],
     [success |-> FALSE, next_action |-> FALSE]}

CommandInputs ==
    { <<"/login", Blank, e.employee_id, Blank, e.password>> : e \in EmployeeSet }
    \cup { <<"/login", Blank, "E1", Blank, "bad">>, <<"/login", Blank, "E1">>,
           <<"/logout">>, <<Blank, "/LOGOUT">>, <<"/Help">>, <<"/status">> }

UserInputs == Texts \cup CommandInputs

MsgLoginUsage == <<"Usage: /login <employee_id> <password>">>
MsgLoginOk == <<"(auth)", "Login successful">>
MsgLoginFailed == <<"(auth)", "Invalid credentials">>
MsgLogoutOk == <<"(auth)", "Logged out">>
MsgLogoutNone == <<"(auth)", "No user logged in">>
MsgHelp == <<"Commands:", "/login", "/logout", "/status", "/help">>
MsgNotLoggedIn == <<"Not logged in.">>
MsgLoggedInAs(user) ==
    <<"Logged in as">> \o user.name \o <<"(", user.employee_id, ")">>
MsgPrivate ==
    <<"This information is private. Please login using /login <employee_id> <password>">>
MsgRephrase == <<"I couldn't understand that. Could you rephrase?">>
MsgGenerated == <<"(llm)">>

\* The prefix cut down to the question mark.
SpecifyPrefix_MarkOnly == <<"(?)">>

\* The prefix the orchestrator tests the priority reply for.
SpecifyPrefix == <<"(?)", "Please specify the employee name">>

\* AuthManager.login: the employee with this id and password, if any.
login(employee_id, password) ==
    FirstAt(Employees, {i \in 1..Len(Employees) :
                           /\ Employees[i].employee_id = employee_id
                           /\ Employees[i].password = password})

\* The record of a process_message call on user_input, before it acts.
Call(user_input) ==
    [NoCall EXCEPT !.op = "process_message",
                   !.user = current_user,
                   !.user_input = user_input,
                   !.context_before = ADMIN_EMAIL_CONTEXT]

\* A command: only the session changes.
CommandDone(user_input, success, message, user) ==
    /\ current_user' = user
    /\ last' = [Call(user_input) EXCEPT !.success = Some(success),
                                        !.reply = Some(message)]
    /\ UNCHANGED <<ADMIN_EMAIL_CONTEXT, conversation_state, intents, unit_vars>>

handle_login_command(command) ==
    LET parts == Split(command)
    IN  IF Len(parts) < 3
        THEN CommandDone(command, FALSE, MsgLoginUsage, current_user)
        ELSE LET found == login(parts[2], parts[3])
             IN  IF found # None
                 THEN CommandDone(command, TRUE, MsgLoginOk, found)
                 ELSE CommandDone(command, FALSE, MsgLoginFailed, current_user)

\* /logout that also closes the pending flow of the user who logs out.
handle_logout_command_ClosesFlow(user_input) ==
    /\ current_user' = None
    /\ last' = [Call(user_input) EXCEPT
                   !.success = Some(current_user # None),
                   !.reply = Some(IF current_user # None THEN MsgLogoutOk
                                  ELSE MsgLogoutNone)]
    /\ ADMIN_EMAIL_CONTEXT' =
           IF current_user = None THEN ADMIN_EMAIL_CONTEXT
           ELSE [ADMIN_EMAIL_CONTEXT EXCEPT ![current_user[1].employee_id] = None]
    /\ UNCHANGED <<conversation_state, intents, unit_vars>>

handle_logout_command(user_input) ==
    IF current_user # None
    THEN CommandDone(user_input, TRUE, MsgLogoutOk, None)
    ELSE CommandDone(user_input, FALSE, MsgLogoutNone, None)

handle_help_command(user_input) ==
    CommandDone(user_input, TRUE, MsgHelp, current_user)

handle_status_command(user_input) ==
    IF current_user # None
    THEN CommandDone(user_input, TRUE, MsgLoggedInAs(current_user[1]),
                     current_user)
    ELSE CommandDone(user_input, TRUE, MsgNotLoggedIn, current_user)

\* A query is answered (or raises): obs is the call's record.
QueryDone(obs, context, state) ==
    /\ ADMIN_EMAIL_CONTEXT' = context
    /\ conversation_state' = state
    /\ last' = obs
    /\ UNCHANGED <<current_user, intents, unit_vars>>

\* _fallback_response: the generated answer, or the apology when the
\* generator raises.
fallback_response(obs, context) ==
    \E llm_ok \in BOOLEAN :
        QueryDone([obs EXCEPT
                      !.success = Some(llm_ok),
                      !.intent = IF llm_ok THEN Some("general_inquiry") ELSE None,
                      !.reply = Some(IF llm_ok THEN MsgGenerated ELSE MsgRephrase)],
                  context, conversation_state)

\* The first turn: the detected intent is ADMIN_SEND_EMAIL.
start_admin_email_flow(obs, context, intent_id, user_data, entities) ==
    \E smtp_ok \in BOOLEAN :
        LET r == handle_admin_email_feature(user_data, entities, context,
                                            smtp_ok)
            o == [obs EXCEPT !.entities = entities,
                             !.handler_calls = obs.handler_calls + 1,
                             !.sends = obs.sends \o r.sends,
                             !.raised = r.raised]
        IN  /\ smtp_ok \/ r.sends # <<>>
            /\ IF r.raised # ""
               THEN QueryDone(o, r.context, conversation_state)
               ELSE QueryDone([o EXCEPT !.success = Some(TRUE),
                                        !.intent = Some(intent_id),
                                        !.reply = r.reply],
                              r.context, conversation_state)

\* The existing business logic and the generated reply.
business_logic(obs, context, intent_id) ==
    \E business_response \in BusinessResponses, llm_ok \in BOOLEAN :
        LET o == [obs EXCEPT !.dispatched = TRUE]
        IN  IF ~llm_ok
            THEN QueryDone([o EXCEPT !.raised = "LLMError"],
                           context, conversation_state)
            ELSE QueryDone([o EXCEPT !.success = Some(business_response.success),
                                     !.intent = Some(intent_id),
                                     !.reply = Some(MsgGenerated)],
                           context,
                           IF business_response.next_action
                           THEN Some("next_action") ELSE None)

\* The normal intent flow of _process_query, from get_intent on.  The
\* entities extract_entities finds are drawn where they are first read.
normal_intent_flow(obs, context, query) ==
    \E scores \in [1..Len(intent_embeddings(intents)) -> QueryScores] :
        LET found == get_intent(intent_embeddings(intents), scores,
                                QueryThreshold)
            o == [obs EXCEPT !.detected =
                      Some([intent_id |-> IF found.intent = None THEN None
                                          ELSE Some(found.intent[1].intent_id),
                            score |-> found.score])]
        IN  IF found.intent = None THEN fallback_response(o, context)
            ELSE LET intent_id == found.intent[1].intent_id
                 IN  IF is_private_intent(intents, intent_id) /\ current_user = None
                     THEN QueryDone([o EXCEPT !.success = Some(FALSE),
                                              !.intent = Some(intent_id),
                                              !.reply = Some(MsgPrivate)],
                                    context, conversation_state)
                     ELSE IF intent_id = "ADMIN_SEND_EMAIL"
                     THEN \E extracted \in ExtractedNames :
                              start_admin_email_flow(
                                  o, context, intent_id, current_user,
                                  [employee_name |-> extracted, message |-> None,
                                   raw_text |-> Some(query)])
                     ELSE business_logic(o, context, intent_id)

\* _process_query: the priority call of the admin e-mail handler for a
\* logged-in user, then the normal intent flow.
process_query(query) ==
    IF current_user = None
    THEN normal_intent_flow(Call(query), ADMIN_EMAIL_CONTEXT, query)
    ELSE \E smtp_ok \in BOOLEAN :
        LET entities == [NoEntities EXCEPT !.raw_text = Some(query)]
            r == handle_admin_email_feature(current_user, entities,
                                            ADMIN_EMAIL_CONTEXT, smtp_ok)
            o == [Call(query) EXCEPT !.entities = entities,
                                     !.handler_calls = 1,
                                     !.sends = r.sends,
                                     !.raised = r.raised]
        IN  /\ smtp_ok \/ r.sends # <<>>
            /\ IF r.raised # "" THEN QueryDone(o, r.context, conversation_state)
               ELSE IF ~StartsWith(r.reply[1], SpecifyPrefix)
               THEN QueryDone([o EXCEPT !.success = Some(TRUE),
                                        !.intent = Some("ADMIN_SEND_EMAIL"),
                                        !.reply = r.reply],
                              r.context, conversation_state)
               ELSE normal_intent_flow(o, r.context, query)

\* The dispatch of process_message: the handler a message goes to.
route(user_input) ==
    LET command == Strip(Lower(user_input))
    IN  IF StartsWith(command, <<"/login">>) THEN "login"
        ELSE IF command = <<"/logout">> THEN "logout"
        ELSE IF command = <<"/help">> THEN "help"
        ELSE IF command = <<"/status">> THEN "status"
        ELSE "query"

process_message(user_input) ==
    CASE route(user_input) = "login" -> handle_login_command(user_input)
      [] route(user_input) = "logout" -> handle_logout_command(user_input)
      [] route(user_input) = "help" -> handle_help_command(user_input)
      [] route(user_input) = "status" -> handle_status_command(user_input)
      [] OTHER -> process_query(user_input)

\* process_message on each kind of message.
Login ==
    \E user_input \in UserInputs :
        route(user_input) = "login" /\ process_message(user_input)

Logout ==
    \E user_input \in UserInputs :
        route(user_input) = "logout" /\ process_message(user_input)

Help ==
    \E user_input \in UserInputs :
        route(user_input) = "help" /\ process_message(user_input)

Status ==
    \E user_input \in UserInputs :
        route(user_input) = "status" /\ process_message(user_input)

Query ==
    \E user_input \in UserInputs :
        route(user_input) = "query" /\ process_message(user_input)

Next == Login \/ Logout \/ Help \/ Status \/ Query

Spec == Init /\ [][Next]_vars

(***************************************************************************)
(* Properties.  They read the record of the last call.                     *)
(***************************************************************************)
HandlerCalled == last.op = "handle_admin_email_feature"
MessageProcessed == last.op = "process_message"

\* The caller of the last call is an admin the directory knows with an
\* address; Key is that admin's session key.
Key == last.user[1].employee_id
AdminCaller ==
    /\ last.user # None
    /\ last.user[1].role = "ADMIN"
    /\ \E e \in EmployeeSet : e.employee_id = Key /\ e.email # None

PendingBefore == AdminCaller /\ last.context_before[Key] # None
IdleBefore == AdminCaller /\ last.context_before[Key] = None
TargetBefore == last.context_before[Key][1].to_employee

\* No text, or the empty text.
NoText(opt) == opt = None \/ Len(opt[1]) = 0
\* A text of blanks only, at least one.
OnlyBlanks(opt) ==
    /\ opt # None
    /\ Len(opt[1]) > 0
    /\ \A i \in 1..Len(opt[1]) : opt[1][i] = Blank

EmptyInput == NoText(last.entities.message) /\ NoText(last.entities.raw_text)
NonEmptyInput == ~EmptyInput

\* C1: a handler call on a key with a pending flow and an empty input (no
\* 'message' entity, empty or absent 'raw_text') returns the "please provide
\* the message" re-prompt, sends nothing and leaves the pending flow, with
\* the same target, as it was.
C1_EmptyInputKeepsPending ==
    (HandlerCalled /\ PendingBefore /\ EmptyInput)
        => /\ last.reply = Some(MsgProvideMessage)
           /\ last.sends = <<>>
           /\ ADMIN_EMAIL_CONTEXT[Key] # None
           /\ ADMIN_EMAIL_CONTEXT[Key][1].to_employee = TargetBefore
           /\ ADMIN_EMAIL_CONTEXT = last.context_before

C1_Witness ==
    /\ HandlerCalled /\ PendingBefore /\ EmptyInput
    /\ last.reply = Some(MsgProvideMessage)
    /\ ADMIN_EMAIL_CONTEXT[Key] # None

QueryProcessed == MessageProcessed /\ route(last.user_input) = "query"

\* The intent get_intent returned on the last call, if it ran and found one.
DetectedIntent ==
    IF last.detected = None THEN None ELSE last.detected[1].intent_id

\* The query reached the handler, by the priority check or by a detected
\* ADMIN_SEND_EMAIL intent.
FlowStartRequested ==
    last.handler_calls > 0 \/ DetectedIntent = Some("ADMIN_SEND_EMAIL")

NonAdminCaller == last.user = None \/ last.user[1].role # "ADMIN"

NamedByEntity(e) ==
    /\ last.entities.employee_name # None
    /\ Lower(last.entities.employee_name[1]) = Lower(e.name)

\* C4 as claimed: on a key awaiting a message for T1, a flow-start request
\* naming another employee T2 (with an address) leaves exactly one pending
\* flow, for T2, and delivers nothing to T1.
C4_NewFlowStartOverwrites ==
    \A t2 \in EmployeeSet :
        (/\ HandlerCalled /\ PendingBefore
         /\ NamedByEntity(t2) /\ t2.email # None /\ t2 # TargetBefore)
            => /\ ADMIN_EMAIL_CONTEXT[Key] = Some([to_employee |-> t2])
               /\ \A i \in 1..Len(last.sends) :
                      Some(last.sends[i].To) # TargetBefore.email

\* C5 as claimed: for a logged-in user with no pending flow every free-text
\* query reaches get_intent.
C5_IdleQueryReachesDetection ==
    (/\ QueryProcessed /\ last.user # None
     /\ last.context_before[last.user[1].employee_id] = None)
        => last.detected # None

\* C6 as claimed: a process_message call gives a key a pending flow only
\* if get_intent ran on that call and returned ADMIN_SEND_EMAIL.
C6_FlowCreatedOnlyByIntent ==
    \A k \in EmployeeIds :
        (/\ MessageProcessed
         /\ last.context_before[k] = None /\ ADMIN_EMAIL_CONTEXT[k] # None)
            => DetectedIntent = Some("ADMIN_SEND_EMAIL")

\* C7: while the logged-in admin's key has a pending flow, a free-text
\* query, the empty one included, goes to the flow's continuation (the
\* re-prompt for an empty query, one send to the pending target otherwise)
\* and get_intent is not invoked.
C7_PendingFlowPreempts ==
    (QueryProcessed /\ PendingBefore)
        => /\ last.detected = None
           /\ last.handler_calls = 1
           /\ ~last.dispatched
           /\ IF last.user_input = <<>>
              THEN /\ last.reply = Some(MsgProvideMessage)
                   /\ last.sends = <<>>
                   /\ ADMIN_EMAIL_CONTEXT = last.context_before
              ELSE /\ Len(last.sends) = 1
                   /\ last.sends[1].to_name = TargetBefore.name
                   /\ last.sends[1].message = last.user_input
                   /\ ADMIN_EMAIL_CONTEXT[Key] = None

C7_Witness ==
    /\ QueryProcessed /\ PendingBefore
    /\ last.user_input = <<>>
    /\ last.reply = Some(MsgProvideMessage)
    /\ last.detected = None

\* C8 as claimed: on a key with a pending flow an input of blanks only is
\* treated like an empty one: the re-prompt, nothing sent, the pending
\* target kept.
C8_BlankInputKeepsPending ==
    (/\ HandlerCalled /\ PendingBefore
     /\ NoText(last.entities.message) /\ OnlyBlanks(last.entities.raw_text))
        => /\ last.reply = Some(MsgProvideMessage)
           /\ last.sends = <<>>
           /\ ADMIN_EMAIL_CONTEXT = last.context_before

\* C9 as claimed: when the delivery fails the handler returns an error
\* message that is not the success confirmation, and no exception leaves it.
C9_DeliveryFailureIsAValue ==
    (/\ HandlerCalled /\ last.sends # <<>>
     /\ ~last.sends[Len(last.sends)].delivered)
        => /\ last.raised = ""
           /\ last.reply # None
           /\ last.reply # Some(MsgSent(TargetBefore.name))

\* The ways a flow-start request fails to name a target.
NameInRawText ==
    /\ last.entities.raw_text # None
    /\ \E e \in EmployeeSet :
           Contains(Lower(last.entities.raw_text[1]), Lower(e.name))
NoNameGiven == NoText(last.entities.employee_name) /\ ~NameInRawText
UnknownNameGiven ==
    /\ ~NoText(last.entities.employee_name)
    /\ \A e \in EmployeeSet : ~NamedByEntity(e)

\* e is the first employee of the directory whose name is in the raw text,
\* and there is no name entity.
NamedByRawText(e) ==
    /\ NoText(last.entities.employee_name)
    /\ last.entities.raw_text # None
    /\ \E i \in 1..Len(Employees) :
           /\ Employees[i] = e
           /\ \A j \in 1..i :
                  Contains(Lower(last.entities.raw_text[1]),
                           Lower(Employees[j].name)) <=> j = i
ResolvedTarget(e) == NamedByEntity(e) \/ NamedByRawText(e)
TargetWithoutAddress == \E e \in EmployeeSet : ResolvedTarget(e) /\ e.email = None

\* C10: an idle admin's flow-start request with no name to go by (no name
\* entity and no employee name in the raw text), with a name no employee
\* has, or with a target that has no address, gets the error naming what is
\* missing, creates no pending flow and sends nothing.
C10_UnresolvedTargetStaysIdle ==
    (HandlerCalled /\ IdleBefore)
        => /\ NoNameGiven => last.reply = Some(MsgSpecifyName)
           /\ UnknownNameGiven
                  => last.reply = Some(MsgNotFound(last.entities.employee_name[1]))
           /\ \A e \in EmployeeSet :
                  (ResolvedTarget(e) /\ e.email = None)
                      => last.reply = Some(MsgNoEmail(e.name))
           /\ (NoNameGiven \/ UnknownNameGiven \/ TargetWithoutAddress)
                  => /\ ADMIN_EMAIL_CONTEXT = last.context_before
                     /\ last.sends = <<>>
                     /\ last.raised = ""

C10_Witness ==
    /\ HandlerCalled /\ IdleBefore
    /\ TargetWithoutAddress
    /\ OnlyBlanks(last.entities.raw_text)
    /\ last.reply = Some(MsgNoEmail(<<"Cy">>))
    /\ ADMIN_EMAIL_CONTEXT[Key] = None

\* C11: an idle admin's flow-start request whose target resolves to an
\* employee with an address records that employee as the key's pending flow,
\* returns the prompt naming the target and sends nothing; no other key's
\* flow changes.
C11_ResolvedTargetRecorded ==
    \A e \in EmployeeSet :
        (HandlerCalled /\ IdleBefore /\ ResolvedTarget(e) /\ e.email # None)
            => /\ ADMIN_EMAIL_CONTEXT[Key] = Some([to_employee |-> e])
               /\ \A k \in EmployeeIds :
                      k # Key => ADMIN_EMAIL_CONTEXT[k] = last.context_before[k]
               /\ last.reply = Some(MsgPrompt(e.name))
               /\ last.sends = <<>>
               /\ last.raised = ""

C11_Witness ==
    /\ HandlerCalled /\ IdleBefore
    /\ \E e \in EmployeeSet :
           /\ NamedByEntity(e) /\ e.email # None
           /\ ADMIN_EMAIL_CONTEXT[Key] = Some([to_employee |-> e])
           /\ last.reply = Some(MsgPrompt(e.name))

(***************************************************************************)
(* IntentDetector.get_intent on its own: the catalog, the similarities of  *)
(* the query to each embedding record and the threshold are the inputs.    *)
(***************************************************************************)
MaxExamples == 2

\* Catalogs of up to two intents, each with 0..MaxExamples examples.
DetectorIntent(id, n) ==
    [intent_id |-> id, name |-> id, examples |-> [k \in 1..n |-> "ex"],
     is_private |-> FALSE]

DetectorCatalogs ==
    {<<>>}
    \cup {<<DetectorIntent("I1", n)>> : n \in 0..MaxExamples}
    \cup {<<DetectorIntent("I1", n), DetectorIntent("I2", m)>> :
             n \in 0..MaxExamples, m \in 0..MaxExamples}

\* cosine_similarity values in [-1, 1], in tenths.
DetectorScores == {-10, -5, 0, 5, 10}

\* Thresholds a caller can pass, in tenths: negative, zero, the
\* orchestrator's, and one above every similarity.
DetectorThresholds == {-5, 0, QueryThreshold, 11}

InitDetector ==
    /\ ADMIN_EMAIL_CONTEXT = [i \in EmployeeIds |-> None]
    /\ current_user = None
    /\ conversation_state = None
    /\ intents \in DetectorCatalogs
    /\ last = NoCall
    /\ \E scores \in [1..Len(intent_embeddings(intents)) -> DetectorScores],
          threshold \in DetectorThresholds :
           detection = Some([scores |-> scores, threshold |-> threshold,
                             result |-> None])
    /\ resolution = None
    /\ requests = None

\* detector.get_intent(query, threshold)
GetIntent ==
    /\ detection # None
    /\ detection[1].result = None
    /\ detection' =
           Some([detection[1] EXCEPT
                    !.result = Some(get_intent(intent_embeddings(intents),
                                               detection[1].scores,
                                               detection[1].threshold))])
    /\ UNCHANGED <<ADMIN_EMAIL_CONTEXT, current_user, conversation_state,
                   intents, last, resolution, requests>>

NextDetector == GetIntent

SpecDetector == InitDetector /\ [][NextDetector]_vars

\* get_intent has returned.
Detected == detection # None /\ detection[1].result # None

Records == intent_embeddings(intents)

\* The highest similarity across all embedding records (records exist).
MaxScore ==
    CHOOSE m \in {detection[1].scores[i] : i \in 1..Len(Records)} :
        \A i \in 1..Len(Records) : detection[1].scores[i] <= m

\* The records holding the highest similarity.
MaxRecords == {i \in 1..Len(Records) : detection[1].scores[i] = MaxScore}

\* The earliest record holding the highest similarity.
EarliestMax == CHOOSE i \in MaxRecords : \A j \in MaxRecords : i <= j

\* C12: with at least one embedding record, get_intent reports the highest
\* similarity across the records as score and returns an intent owning it
\* when it is >= threshold, none otherwise; with no record it returns
\* (none, 0.0).
C12_ReportsMaximum ==
    Detected =>
        LET result == detection[1].result[1]
        IN  IF Len(Records) = 0
            THEN result = [intent |-> None, score |-> 0]
            ELSE /\ result.score = MaxScore
                 /\ MaxScore >= detection[1].threshold
                        => \E i \in MaxRecords :
                               result.intent = Some(Records[i].intent)
                 /\ MaxScore < detection[1].threshold
                        => result.intent = None

\* C14: when several records share the highest similarity and it clears the
\* threshold, get_intent returns the intent of the earliest of them.
C14_EarliestOfTiesWins ==
    (/\ Detected
     /\ Len(Records) > 0
     /\ Cardinality(MaxRecords) > 1
     /\ MaxScore >= detection[1].threshold)
        => detection[1].result[1].intent = Some(Records[EarliestMax].intent)

\* C15: with a threshold above 1.0 get_intent returns no intent, together
\* with the best score of its scan.
C15_ThresholdAboveOneNeverMatches ==
    (Detected /\ detection[1].threshold > 10)
        => detection[1].result[1] =
               [intent |-> None,
                score |-> ScanFrom(Records, detection[1].scores, 1, 0,
                                   None).score]

C15_Witness ==
    /\ Detected
    /\ detection[1].threshold > 10
    /\ Len(Records) > 0
    /\ MaxScore = 10
    /\ detection[1].result[1] = [intent |-> None, score |-> 10]

(***************************************************************************)
(* The private-intent gate of _process_query                               *)
(***************************************************************************)
\* The catalog marks intent_id private.
PrivateInCatalog(intent_id) ==
    \E i \in 1..Len(intents) :
        intents[i].intent_id = intent_id /\ intents[i].is_private

\* The last call was a free-text query of an unauthenticated session for
\* which get_intent returned a private intent.
PrivateQueryUnauthenticated ==
    /\ QueryProcessed
    /\ last.user = None
    /\ DetectedIntent # None
    /\ PrivateInCatalog(DetectedIntent[1])

\* C13: a free-text query of an unauthenticated session whose detected
\* intent is private is answered with a failure asking for login; neither
\* the business logic nor the admin e-mail handler runs, and the step changes
\* neither the conversation state nor any pending flow.
C13_PrivateIntentNeedsLogin ==
    [][PrivateQueryUnauthenticated'
           => /\ current_user = None
              /\ last'.success = Some(FALSE)
              /\ last'.reply = Some(MsgPrivate)
              /\ last'.raised = ""
              /\ last'.handler_calls = 0
              /\ ~last'.dispatched
              /\ last'.sends = <<>>
              /\ UNCHANGED <<ADMIN_EMAIL_CONTEXT, conversation_state,
                             current_user>>]_vars

C13_Witness ==
    /\ PrivateQueryUnauthenticated
    /\ last.reply = Some(MsgPrivate)
    /\ last.success = Some(FALSE)
    /\ conversation_state # None
    /\ \E k \in EmployeeIds : ADMIN_EMAIL_CONTEXT[k] # None

(***************************************************************************)
(* Pop-then-send                                                           *)
(***************************************************************************)
\* The last handler call attempted a send and the server refused it.
FailedDelivery ==
    /\ HandlerCalled
    /\ last.sends # <<>>
    /\ ~last.sends[Len(last.sends)].delivered

\* C16: a failed delivery leaves the admin's session idle, the pending
\* target removed, after exactly one attempt; the next call by that admin
\* does not send again.
C16_FailedDeliveryClosesFlow ==
    /\ [](FailedDelivery
              => /\ PendingBefore
                 /\ ADMIN_EMAIL_CONTEXT[Key] = None
                 /\ Len(last.sends) = 1)
    /\ [][(FailedDelivery /\ HandlerCalled' /\ last'.user = last.user)
              => last'.sends = <<>>]_vars

C16_Witness ==
    /\ FailedDelivery
    /\ PendingBefore
    /\ last.raised = "SMTPException"
    /\ ADMIN_EMAIL_CONTEXT[Key] = None

(***************************************************************************)
(* Who changes a pending flow                                              *)
(***************************************************************************)
\* C17: a step changes the pending flow of key k only if it is a query of
\* the session in which the admin with id k is logged in, and the handler
\* ran on it with that identity; commands, queries of an unauthenticated
\* session and queries under another login leave k's flow as it was.
C17_OnlyOwnCallsChangeFlow ==
    [][\A k \in EmployeeIds :
           ADMIN_EMAIL_CONTEXT'[k] # ADMIN_EMAIL_CONTEXT[k]
               => /\ current_user # None
                  /\ current_user[1].employee_id = k
                  /\ current_user[1].role = "ADMIN"
                  /\ QueryProcessed'
                  /\ last'.user = current_user
                  /\ last'.handler_calls > 0]_vars

\* An admin logs in again from a logged-out session and the flow opened
\* before the logout is still pending.
C17_Witness ==
    /\ MessageProcessed
    /\ route(last.user_input) = "login"
    /\ last.user = None
    /\ last.success = Some(TRUE)
    /\ current_user # None
    /\ ADMIN_EMAIL_CONTEXT[current_user[1].employee_id] # None
    /\ \E k \in EmployeeIds :
           k # current_user[1].employee_id /\ ADMIN_EMAIL_CONTEXT[k] # None

(***************************************************************************)
(* Target resolution on its own: STEP 1 of the handler for an idle admin,  *)
(* on strings spelled letter by letter.                                    *)
(***************************************************************************)
MaxChars == 4

\* A directory whose names are spelled out: Al before Bo.
SpelledEmployees ==
    << [employee_id |-> "E1", name |-> <<"A", "l">>, email |-> Some("al@"),
        role |-> "ADMIN", password |-> "pw1"],
       [employee_id |-> "E2", name |-> <<"B", "o">>, email |-> Some("bo@"),
        role |-> "EMPLOYEE", password |-> "pw2"] >>

\* Raw texts: up to MaxChars letters.
SpelledTexts == UNION {[1..n -> {"a", "l", "B", "o"}] : n \in 0..MaxChars}

\* The 'employee_name' entity: absent, empty, a name as the directory spells
\* it, a name in other cases, a fragment of a name.
SpelledNames ==
    {None, Some(<<>>), Some(<<"A", "l">>), Some(<<"b", "O">>), Some(<<"b">>)}

InitResolve ==
    /\ ADMIN_EMAIL_CONTEXT = [i \in EmployeeIds |-> None]
    /\ current_user = None
    /\ conversation_state = None
    /\ intents \in Catalogs
    /\ last = NoCall
    /\ detection = None
    /\ \E name \in SpelledNames, text \in SpelledTexts :
           resolution = Some([entities |-> [employee_name |-> name,
                                            message |-> None,
                                            raw_text |-> Some(text)],
                              reply |-> None])
    /\ requests = None

\* STEP 1 for the admin E1, whose key has no pending flow.
ResolveTarget ==
    /\ resolution # None
    /\ resolution[1].reply = None
    /\ LET r == start_flow("E1", resolution[1].entities, ADMIN_EMAIL_CONTEXT,
                           SpelledEmployees)
       IN  /\ ADMIN_EMAIL_CONTEXT' = r.context
           /\ resolution' = Some([resolution[1] EXCEPT !.reply = r.reply])
    /\ UNCHANGED <<current_user, conversation_state, intents, last, detection,
                   requests>>

NextResolve == ResolveTarget

SpecResolve == InitResolve /\ [][NextResolve]_vars

Resolved == resolution # None /\ resolution[1].reply # None

EntityName == resolution[1].entities.employee_name
RawText == resolution[1].entities.raw_text[1]

\* Place i of the directory is the first whose name, cases aside, is name.
FirstNamed(i, name) ==
    \A j \in 1..i : (Lower(SpelledEmployees[j].name) = Lower(name)) <=> j = i

\* Place i of the directory is the first whose name, cases aside, occurs in
\* text.
FirstOccurring(i, text) ==
    \A j \in 1..i :
        (\E k \in 0..(Len(text) - Len(SpelledEmployees[j].name)) :
             Lower(SubSeq(text, k + 1, k + Len(SpelledEmployees[j].name)))
                 = Lower(SpelledEmployees[j].name)) <=> j = i

Places == 1..Len(SpelledEmployees)

\* The call asked for a message to employee e and recorded e as the target.
PromptedFor(e) ==
    /\ resolution[1].reply = Some(MsgPrompt(e.name))
    /\ ADMIN_EMAIL_CONTEXT["E1"] = Some([to_employee |-> e])

StillIdle == \A k \in EmployeeIds : ADMIN_EMAIL_CONTEXT[k] = None

\* C18: a name entity that is given decides the target, by exact match
\* cases aside, and an unknown one yields "not found" whatever the raw text
\* says; without a name entity the target is the first employee of the
\* directory whose name, cases aside, occurs in the raw text.
C18_EntityThenRawText ==
    Resolved =>
        IF Truthy(EntityName)
        THEN /\ \A i \in Places :
                    FirstNamed(i, EntityName[1])
                        => PromptedFor(SpelledEmployees[i])
             /\ (\A i \in Places : ~FirstNamed(i, EntityName[1]))
                    => /\ resolution[1].reply = Some(MsgNotFound(EntityName[1]))
                       /\ StillIdle
        ELSE /\ \A i \in Places :
                    FirstOccurring(i, RawText)
                        => PromptedFor(SpelledEmployees[i])
             /\ (\A i \in Places : ~FirstOccurring(i, RawText))
                    => /\ resolution[1].reply = Some(MsgSpecifyName)
                       /\ StillIdle

\* Bo comes first in the text and Al first in the directory: Al is asked for.
C18_Witness ==
    /\ Resolved
    /\ EntityName = None
    /\ RawText = <<"B", "o", "a", "l">>
    /\ PromptedFor(SpelledEmployees[1])

\* An unknown name entity with a raw text naming Bo: "not found".
C18_WitnessUnknown ==
    /\ Resolved
    /\ EntityName = Some(<<"b">>)
    /\ RawText = <<"B", "o">>
    /\ resolution[1].reply = Some(MsgNotFound(<<"b">>))

(***************************************************************************)
(* Two calls of handle_admin_email_feature for the same admin running      *)
(* concurrently on a key with one pending flow.  Each call takes the       *)
(* membership test, the pop, the send and the store of STEP 1 as separate  *)
(* steps; a dict operation is one step.                                    *)
(***************************************************************************)
RequestIds == {1, 2}

\* The admin both calls are made for.
RacingAdmin == Employees[1]

\* Non-empty messages, as a 'message' entity or as the raw text; one of the
\* raw texts names an employee.
RacingEntities ==
    {[employee_name |-> None, message |-> None, raw_text |-> Some(<<"Hi">>)],
     [employee_name |-> None, message |-> None, raw_text |-> Some(<<"BO">>)],
     [employee_name |-> None, message |-> Some(<<"Hi">>),
      raw_text |-> Some(<<>>)]}

\* dict.pop(key) leaving the entry in the dict.
dict_pop_KeepEntry(context, key) ==
    [raised |-> context[key] = None, value |-> context[key],
     context |-> context]

\* dict.pop(key): the value removed, or KeyError when the key is not there.
dict_pop(context, key) ==
    [raised |-> context[key] = None, value |-> context[key],
     context |-> [context EXCEPT ![key] = None]]

InitRace ==
    /\ \E target \in {e \in EmployeeSet : HasEmail(e) /\ e # RacingAdmin} :
           ADMIN_EMAIL_CONTEXT =
               [i \in EmployeeIds |->
                   IF i = RacingAdmin.employee_id
                   THEN Some([to_employee |-> target]) ELSE None]
    /\ current_user = None
    /\ conversation_state = None
    /\ intents \in Catalogs
    /\ last = NoCall
    /\ detection = None
    /\ resolution = None
    /\ requests \in [RequestIds ->
                        {[pc |-> "check", entities |-> e, context |-> None,
                          reply |-> None, raised |-> "", sends |-> <<>>] :
                             e \in RacingEntities}]

RaceFrame ==
    UNCHANGED <<current_user, conversation_state, intents, last, detection,
                resolution>>

\* The message of request t, as STEP 2 reads it.
MessageOf(t) ==
    IF Truthy(requests[t].entities.message) THEN requests[t].entities.message
    ELSE requests[t].entities.raw_text

\* Lines 45-66: role and admin checks, then `admin_id in
\* _ADMIN_EMAIL_CONTEXT` and the message.
CheckContext(t) ==
    /\ requests[t].pc = "check"
    /\ requests' =
           [requests EXCEPT ![t] =
               IF ADMIN_EMAIL_CONTEXT[RacingAdmin.employee_id] = None
               THEN [@ EXCEPT !.pc = "start"]
               ELSE IF ~Truthy(MessageOf(t))
               THEN [@ EXCEPT !.pc = "done", !.reply = Some(MsgProvideMessage)]
               ELSE [@ EXCEPT !.pc = "pop"]]
    /\ UNCHANGED ADMIN_EMAIL_CONTEXT
    /\ RaceFrame

\* Line 68: context = _ADMIN_EMAIL_CONTEXT.pop(admin_id)
PopContext(t) ==
    /\ requests[t].pc = "pop"
    /\ LET popped == dict_pop(ADMIN_EMAIL_CONTEXT, RacingAdmin.employee_id)
       IN  IF popped.raised
           THEN /\ requests' = [requests EXCEPT ![t].pc = "done",
                                                ![t].raised = "KeyError"]
                /\ UNCHANGED ADMIN_EMAIL_CONTEXT
           ELSE /\ requests' = [requests EXCEPT ![t].pc = "send",
                                                ![t].context = popped.value]
                /\ ADMIN_EMAIL_CONTEXT' = popped.context
    /\ RaceFrame

\* Lines 70-78: _send_email, then the confirmation.
SendEmail(t) ==
    /\ requests[t].pc = "send"
    /\ \E smtp_ok \in BOOLEAN :
           LET to_employee == requests[t].context[1].to_employee
               mail == send_email(RacingAdmin.email[1], to_employee.email[1],
                                  to_employee.name, RacingAdmin.name,
                                  MessageOf(t)[1], smtp_ok)
           IN  requests' =
                   [requests EXCEPT
                       ![t].pc = "done",
                       ![t].sends = @ \o <<mail>>,
                       ![t].reply = IF smtp_ok
                                    THEN Some(MsgSent(to_employee.name))
                                    ELSE None,
                       ![t].raised = IF smtp_ok THEN "" ELSE "SMTPException"]
    /\ UNCHANGED ADMIN_EMAIL_CONTEXT
    /\ RaceFrame

\* Lines 84-107: STEP 1, for a request that found no context.
StartFlow(t) ==
    /\ requests[t].pc = "start"
    /\ LET r == start_flow(RacingAdmin.employee_id, requests[t].entities,
                           ADMIN_EMAIL_CONTEXT, Employees)
       IN  /\ requests' = [requests EXCEPT ![t].pc = "done",
                                           ![t].reply = r.reply]
           /\ ADMIN_EMAIL_CONTEXT' = r.context
    /\ RaceFrame

NextRace ==
    \E t \in RequestIds :
        \/ CheckContext(t)
        \/ PopContext(t)
        \/ SendEmail(t)
        \/ StartFlow(t)

SpecRace == InitRace /\ [][NextRace]_vars

\* Request t reported a successful send.
ReportsSent(t) ==
    /\ requests[t].reply # None
    /\ \E e \in EmployeeSet : requests[t].reply = Some(MsgSent(e.name))

\* C19: of two interleaved continuation requests on one pending flow, at
\* most one invokes the delivery, once, and only that one can report a
\* successful send.
C19_AtMostOneDelivery ==
    requests # None =>
        /\ Len(requests[1].sends) + Len(requests[2].sends) <= 1
        /\ \A t \in RequestIds : ReportsSent(t) => Len(requests[t].sends) = 1
        /\ ~(ReportsSent(1) /\ ReportsSent(2))

\* Both requests passed the membership test before either popped: one sent
\* and confirmed, the other's pop raised.
C19_Witness ==
    /\ requests # None
    /\ \E t, u \in RequestIds :
           /\ t # u
           /\ requests[t].pc = "done" /\ ReportsSent(t)
           /\ Len(requests[t].sends) = 1
           /\ requests[u].pc = "done"
           /\ requests[u].raised = "KeyError"
           /\ requests[u].sends = <<>>

====
